---- MODULE Spec2Model ----
(***************************************************************************)
(* Model of the learner performance monitor:                               *)
(*   - generate_reports (src/generate_reports.py): batched classification  *)
(*     with per-student retry, backoff and the "Needs Review" fallback;     *)
(*   - analyse_students (src/analyse_students.py): the bulk fetch of        *)
(*     submissions and the per-student metrics;                            *)
(*   - save_reports_to_file (src/save_reports_to_file.py): the grouping of *)
(*     students by category.                                               *)
(*                                                                         *)
(* Text is a sequence of tokens.  A token is one character ("*", "SP" for   *)
(* a blank, "NL" for a newline) or a literal run of characters that the     *)
(* code only ever handles as a whole: "SEP" is the delimiter '---',         *)
(* "Category:" is the label prefix, and a category label or a word of free  *)
(* text is one token.                                                       *)
(***************************************************************************)
EXTENDS Integers, Sequences, FiniteSets, TLC

(* ------------------------------ bounds -------------------------------- *)
MaxStudents == 3
MaxBatch == 2
MaxRetries == 2

(* --------------------------- text primitives --------------------------- *)
None == <<"None">>

Min(a, b) == IF a < b THEN a ELSE b

FirstIndex(s, d) ==
  IF \E j \in 1..Len(s) : s[j] = d
  THEN CHOOSE j \in 1..Len(s) : s[j] = d /\ \A k \in 1..(j-1) : s[k] # d
  ELSE 0

RECURSIVE SplitOn(_, _)
SplitOn(s, d) ==
  LET idx == FirstIndex(s, d)
  IN IF idx = 0 THEN <<s>>
     ELSE <<SubSeq(s, 1, idx-1)>> \o SplitOn(SubSeq(s, idx+1, Len(s)), d)

IsSpace(c) == c \in {"SP", "NL"}

Strip(s) ==
  LET keep == {j \in 1..Len(s) : ~IsSpace(s[j])}
  IN IF keep = {} THEN <<>>
     ELSE SubSeq(s, CHOOSE j \in keep : \A k \in keep : j <= k,
                    CHOOSE j \in keep : \A k \in keep : j >= k)

SplitLines(s) ==
  LET p == SplitOn(s, "NL")
  IN IF p[Len(p)] = <<>> THEN SubSeq(p, 1, Len(p)-1) ELSE p

NonEmpty(s) == s # <<>>

ParseFragments(ai) ==
  LET p == SplitOn(ai, "SEP")
  IN SelectSeq([j \in 1..Len(p) |-> Strip(p[j])], NonEmpty)

(* re.sub with count=1: only the first '**' is removed *)
remove_markdown_bold_FirstOnly(text) ==
  LET hits == {j \in 1..(Len(text) - 1) : text[j] = "*" /\ text[j + 1] = "*"}
  IN IF hits = {} THEN text
     ELSE LET j == CHOOSE h \in hits : \A o \in hits : h <= o
          IN SubSeq(text, 1, j - 1) \o SubSeq(text, j + 2, Len(text))

(* re.sub(r'\*\*', '', text): the non-overlapping '**', left to right *)
RECURSIVE remove_markdown_bold(_)
remove_markdown_bold(text) ==
  IF Len(text) < 2 THEN text
  ELSE IF text[1] = "*" /\ text[2] = "*"
       THEN remove_markdown_bold(SubSeq(text, 3, Len(text)))
       ELSE <<text[1]>> \o remove_markdown_bold(Tail(text))

categories ==
  <<"High Performer", "At Risk", "Average", "Improving", "Emerging", "Needs Review">>

InCategories(c) == \E j \in 1..Len(categories) : c = <<categories[j]>>

StartsWithCategory(ln) ==
  LET t == Strip(ln) IN Len(t) > 0 /\ t[1] = "Category:"

(* extract_category reading the last 'Category:' line instead of the first *)
extract_category_LastLine(resp_text) ==
  LET lines == SplitLines(resp_text)
      hits == {j \in 1..Len(lines) : StartsWithCategory(lines[j])}
  IN IF hits = {} THEN None
     ELSE LET line == lines[CHOOSE j \in hits : \A k \in hits : j >= k]
          IN Strip(SubSeq(line, FirstIndex(line, "Category:") + 1, Len(line)))

extract_category(resp_text) ==
  LET lines == SplitLines(resp_text)
      hits == {j \in 1..Len(lines) : StartsWithCategory(lines[j])}
  IN IF hits = {} THEN None
     ELSE LET line == lines[CHOOSE j \in hits : \A k \in hits : j <= k]
          IN Strip(SubSeq(line, FirstIndex(line, "Category:") + 1, Len(line)))

Truthy(v) == v # None /\ v # <<>>

ValidCategory(c) == Truthy(c) /\ InCategories(c)


(* -------------------------- analyse_students --------------------------- *)
(* An optional value is <<>> (None, or no record) or <<v>>.  A percentage   *)
(* is the exact fraction num/den, den > 0.                                  *)
Absent == <<>>
Some(v) == <<v>>
IsPresent(o) == o # <<>>
Val(o) == o[1]

Pct(earned, possible) == [num |-> 100 * earned, den |-> possible]
ZeroPct == [num |-> 0, den |-> 1]

NewMetrics(n) ==
  [total_assignments |-> n, missing |-> 0, late |-> 0,
   average_submitted |-> ZeroPct, average_all |-> ZeroPct, average_score |-> ZeroPct,
   graded_count |-> 0]

NewTotals ==
  [total_earned_submitted |-> 0, total_possible_submitted |-> 0,
   total_earned_all |-> 0, total_possible_all |-> 0]

UsableMax(max_p) == IsPresent(max_p) /\ Val(max_p) > 0

(* ItemStep with the grade added to total_earned_all before the check that *)
(* the item has a positive maximum                                         *)
ItemStep_EarnedWithoutMax(acc, max_p, sub) ==
  IF ~IsPresent(sub)
  THEN [acc EXCEPT !.m.missing = @ + 1]
  ELSE
    LET s == Val(sub)
        assigned == s.assignedGrade
        a1 == IF s.late THEN [acc EXCEPT !.m.late = @ + 1] ELSE acc
        a1e == IF IsPresent(assigned) /\ Val(assigned) > 0
               THEN [a1 EXCEPT !.t.total_earned_all = @ + Val(assigned)] ELSE a1
        a2 == IF UsableMax(max_p)
              THEN [a1e EXCEPT !.t.total_possible_all = @ + Val(max_p)]
              ELSE a1e
    IN IF ~IsPresent(assigned) \/ Val(assigned) = 0
       THEN [a2 EXCEPT !.m.missing = @ + 1]
       ELSE IF UsableMax(max_p)
            THEN [a2 EXCEPT !.t.total_earned_submitted = @ + Val(assigned),
                            !.t.total_possible_submitted = @ + Val(max_p),
                            !.m.graded_count = @ + 1]
            ELSE a2

(* ItemStep with an absent or zero grade counted as missing only when the  *)
(* item has a positive maximum                                             *)
ItemStep_MissingNeedsMax(acc, max_p, sub) ==
  IF ~IsPresent(sub)
  THEN [acc EXCEPT !.m.missing = @ + 1]
  ELSE
    LET s == Val(sub)
        assigned == s.assignedGrade
        a1 == IF s.late THEN [acc EXCEPT !.m.late = @ + 1] ELSE acc
        a2 == IF UsableMax(max_p)
              THEN [a1 EXCEPT !.t.total_possible_all = @ + Val(max_p),
                              !.t.total_earned_all =
                                 IF IsPresent(assigned) /\ Val(assigned) > 0
                                 THEN @ + Val(assigned) ELSE @]
              ELSE a1
    IN IF ~IsPresent(assigned) \/ Val(assigned) = 0
       THEN IF UsableMax(max_p) THEN [a2 EXCEPT !.m.missing = @ + 1] ELSE a2
       ELSE IF UsableMax(max_p)
            THEN [a2 EXCEPT !.t.total_earned_submitted = @ + Val(assigned),
                            !.t.total_possible_submitted = @ + Val(max_p),
                            !.m.graded_count = @ + 1]
            ELSE a2

(* ItemStep with a zero grade kept in the submitted totals: only an absent *)
(* grade leaves the item out                                               *)
ItemStep_ZeroGradeSubmitted(acc, max_p, sub) ==
  IF ~IsPresent(sub)
  THEN [acc EXCEPT !.m.missing = @ + 1]
  ELSE
    LET s == Val(sub)
        assigned == s.assignedGrade
        a1 == IF s.late THEN [acc EXCEPT !.m.late = @ + 1] ELSE acc
        a2 == IF UsableMax(max_p)
              THEN [a1 EXCEPT !.t.total_possible_all = @ + Val(max_p),
                              !.t.total_earned_all =
                                 IF IsPresent(assigned) /\ Val(assigned) > 0
                                 THEN @ + Val(assigned) ELSE @]
              ELSE a1
        a3 == IF ~IsPresent(assigned) \/ Val(assigned) = 0
              THEN [a2 EXCEPT !.m.missing = @ + 1] ELSE a2
    IN IF ~IsPresent(assigned)
       THEN a3
       ELSE IF UsableMax(max_p)
            THEN [a3 EXCEPT !.t.total_earned_submitted = @ + Val(assigned),
                            !.t.total_possible_submitted = @ + Val(max_p),
                            !.m.graded_count = @ + 1]
            ELSE a3

(* the body of "for cw in coursework" for one item: acc = [m, t] holds the  *)
(* metrics record and the four running totals                               *)
ItemStep(acc, max_p, sub) ==
  IF ~IsPresent(sub)
  THEN [acc EXCEPT !.m.missing = @ + 1]
  ELSE
    LET s == Val(sub)
        assigned == s.assignedGrade
        a1 == IF s.late THEN [acc EXCEPT !.m.late = @ + 1] ELSE acc
        a2 == IF UsableMax(max_p)
              THEN [a1 EXCEPT !.t.total_possible_all = @ + Val(max_p),
                              !.t.total_earned_all =
                                 IF IsPresent(assigned) /\ Val(assigned) > 0
                                 THEN @ + Val(assigned) ELSE @]
              ELSE a1
    IN IF ~IsPresent(assigned) \/ Val(assigned) = 0
       THEN [a2 EXCEPT !.m.missing = @ + 1]
       ELSE IF UsableMax(max_p)
            THEN [a2 EXCEPT !.t.total_earned_submitted = @ + Val(assigned),
                            !.t.total_possible_submitted = @ + Val(max_p),
                            !.m.graded_count = @ + 1]
            ELSE a2

RECURSIVE ItemLoop(_, _, _, _)
ItemLoop(acc, cw, subs, k) ==
  IF k > Len(cw) THEN acc
  ELSE ItemLoop(ItemStep(acc, cw[k], subs[k]), cw, subs, k + 1)

(* ComputeAverages with average_score taken from the submitted average *)
ComputeAverages_ScoreFromSubmitted(acc) ==
  LET t == acc.t
      avg_sub == IF t.total_possible_submitted > 0
                 THEN Pct(t.total_earned_submitted, t.total_possible_submitted)
                 ELSE ZeroPct
      avg_all == IF t.total_possible_all > 0
                 THEN Pct(t.total_earned_all, t.total_possible_all)
                 ELSE ZeroPct
  IN [acc.m EXCEPT !.average_submitted = avg_sub,
                   !.average_all = avg_all,
                   !.average_score = avg_sub]

ComputeAverages(acc) ==
  LET t == acc.t
      avg_sub == IF t.total_possible_submitted > 0
                 THEN Pct(t.total_earned_submitted, t.total_possible_submitted)
                 ELSE ZeroPct
      avg_all == IF t.total_possible_all > 0
                 THEN Pct(t.total_earned_all, t.total_possible_all)
                 ELSE ZeroPct
  IN [acc.m EXCEPT !.average_submitted = avg_sub,
                   !.average_all = avg_all,
                   !.average_score = avg_all]

StudentMetrics(cw, subs) ==
  ComputeAverages(ItemLoop([m |-> NewMetrics(Len(cw)), t |-> NewTotals], cw, subs, 1))

(* ----------------------- generated fallback text ----------------------- *)
JsonDumps(m) == <<"{", m.id, "additional_context:">> \o m.additional_context \o <<"}">>

UnableFallback(m) ==
  <<"Category:", "SP", "Needs Review", "NL",
    "Teacher Report: Unable to obtain valid category after retrying. Please review student metrics: ">>
  \o JsonDumps(m)

InvalidCategoryFallback(cat, m) ==
  <<"Category:", "SP", "Needs Review", "NL",
    "Teacher Report: AI provided an invalid category ('">> \o cat
  \o <<"'). Please review student metrics: ">> \o JsonDumps(m)

(* ------------------- the external classification call ------------------ *)
FragValid == <<"Category:", "SP", "At Risk", "NL", "*", "*", "x", "*", "*">>
FragInvalid == <<"Category:", "SP", "Bogus", "NL", "x">>
FragNoCategory == <<"x">>
FragBlank == <<"SP">>

Fragments == {FragValid, FragInvalid, FragBlank}

(* a reply holds up to one fragment more than the largest batch *)
MaxFrags == MaxBatch + 1

RECURSIVE JoinFragments(_)
JoinFragments(fs) ==
  IF Len(fs) = 0 THEN <<>>
  ELSE IF Len(fs) = 1 THEN fs[1]
  ELSE fs[1] \o <<"NL", "SEP", "NL">> \o JoinFragments(Tail(fs))

RawResponses ==
  {JoinFragments(fs) : fs \in UNION {[1..k -> Fragments] : k \in 0..MaxFrags}}
    \cup {FragNoCategory}

(* call_ollama_classify returns full_response.strip() *)
call_ollama_classify(raw) == Strip(raw)

(* a response to a request about k students is well formed when it has     *)
(* exactly k fragments and every fragment carries an allowed category      *)
WellFormed(fr, k) ==
  Len(fr) = k /\ \A j \in 1..Len(fr) : ValidCategory(extract_category(fr[j]))

(* what the split at lines 76, 104 and 165 makes of the possible replies *)
SplitReplies == {ParseFragments(call_ollama_classify(raw)) : raw \in RawResponses}

(* ------------------------------- state --------------------------------- *)
VARIABLES
  student_items,        \* list(student_analysis.items()): the student ids in order
  additional_context,   \* metrics["additional_context"] of every student
  BATCH_SIZE, MAX_RETRIES,
  pc, start, batch, individual_responses, i, category,
  attempts, valid_response, results,
  batches,              \* history: the batches sliced so far
  batch_calls,          \* history: number of batch requests issued
  retry_calls,          \* history: single-student requests issued for the student
                        \*          in hand (or, between students, the one just stored)
  all_malformed,        \* history: every external call so far returned malformed text
  coursework,           \* analyse_students: maxPoints of each coursework item
  submissions,          \* analyse_students: the student's submission per item, if any
  metrics,              \* analyse_students: the metrics record of the student
  mpc,                  \* analyse_students: "start" or "done"
  sleeps,               \* history: time.sleep calls made for the student in hand
  last_delay,           \* history: seconds passed to the latest of those calls
  last_request,         \* history: the students whose data the latest prompt held
  accepted_count,       \* history: len(single_responses) of the retry reply whose
                        \*          candidate has just been accepted, else 0
  students,             \* analyse_students: get_all_students(), in order
  remote,               \* analyse_students: what Classroom holds, per item and student
  fetch_pos,            \* analyse_students: coursework items fetched so far
  submissions_lookup,   \* analyse_students: (sid, item) -> submission
  fetch_failed,         \* history: the items whose list request raised
  fetch_pc,             \* analyse_students: "idle", "fetch", "analyse" or "done"
  student_analysis,     \* the per-student records, in processing order
  reports,              \* save_reports_to_file: sid -> stored ai_response
  category_groups,      \* save_reports_to_file: category -> list of full names
  save_pos,             \* save_reports_to_file: students processed by its loop
  fragment,             \* one fragment of a count-matching reply
  verdict,              \* "idle", "pending", "accepted" or "retry"
  stored,               \* the text stored for an accepted fragment
  detailed_submissions, \* generate_reports: the detail rows put in the prompt
  file_rows,            \* save_reports_to_file: the rows of the submissions table
  dpc,                  \* detail rows: "idle", "prompt", "file" or "done"
  run_btn,              \* gui: state of the Run Analysis button
  threads,              \* gui: the threads started by on_run, in start order
  environ,              \* os.environ["AI_BATCH_SIZE"], if set
  batch_size_var,       \* gui: content of the batch size entry
  dialog                \* gui: text of the latest messagebox.showerror

cvars == <<student_items, additional_context, BATCH_SIZE, MAX_RETRIES,
           pc, start, batch, individual_responses, i, category,
           attempts, valid_response, results,
           batches, batch_calls, retry_calls, all_malformed,
           sleeps, last_delay, last_request, accepted_count>>

hvars == <<sleeps, last_delay, last_request, accepted_count>>

dvars == <<detailed_submissions, file_rows, dpc>>

mvars == <<coursework, submissions, metrics, mpc, dvars>>

fvars == <<students, remote, fetch_pos, submissions_lookup, fetch_failed, fetch_pc>>

svars == <<student_analysis, reports, category_groups, save_pos>>

vvars == <<fragment, verdict, stored>>

gvars == <<run_btn, threads, environ, batch_size_var, dialog>>

ovars == <<fvars, svars, vvars, gvars>>

vars == <<cvars, mvars, ovars>>

(* the parts of the program a specification does not exercise stay as      *)
(* they are before they are called                                         *)
FetchIdle ==
  /\ students = <<>>
  /\ remote = <<>>
  /\ fetch_pos = 0
  /\ submissions_lookup = <<>>
  /\ fetch_failed = {}
  /\ fetch_pc = "idle"

SaveIdle ==
  /\ reports = <<>>
  /\ category_groups = <<>>
  /\ save_pos = 0

ValidateIdle ==
  /\ fragment = <<>>
  /\ verdict = "idle"
  /\ stored = <<>>

DetailIdle ==
  /\ detailed_submissions = <<>>
  /\ file_rows = <<>>
  /\ dpc = "idle"

GuiIdle ==
  /\ run_btn = "normal"
  /\ threads = <<>>
  /\ environ = <<>>
  /\ batch_size_var = "2"
  /\ dialog = ""

StudentIds == <<"s1", "s2", "s3", "s4", "s5">>
Sids == {student_items[j] : j \in 1..Len(student_items)}

BatchSizes == (-1)..MaxBatch
RetrySettings == 0..MaxRetries
(* additional_context is free text typed by the teacher; analyse_students   *)
(* keeps it only when one student is selected (analyse_students.py:18-19,   *)
(* 70), and the metrics record then belongs to a run with that one student  *)
Contexts == {<<>>, <<"*", "*", "ill">>}

MetricsOf(sid) == [id |-> sid, additional_context |-> additional_context]

INFINITE_RETRIES == MAX_RETRIES <= 0

(* results = {sid: ...} in place of results[sid] = ...: the mapping is     *)
(* started afresh at every write                                           *)
Put_Afresh(f, k, v) == [x \in {k} |-> v]

(* f[k] = v on a dict *)
Put(f, k, v) == [x \in DOMAIN f \cup {k} |-> IF x = k THEN v ELSE f[x]]

Init ==
  /\ \E n \in 1..MaxStudents : student_items = SubSeq(StudentIds, 1, n)
  /\ additional_context \in Contexts
  /\ (additional_context # <<>> => Len(student_items) = 1)
  /\ BATCH_SIZE \in BatchSizes
  /\ MAX_RETRIES \in RetrySettings
  /\ pc = "enter"
  /\ start = 0
  /\ batch = <<>>
  /\ individual_responses = <<>>
  /\ i = 0
  /\ category = None
  /\ attempts = 0
  /\ valid_response = None
  /\ results = <<>>
  /\ batches = <<>>
  /\ batch_calls = 0
  /\ retry_calls = 0
  /\ all_malformed = TRUE
  /\ sleeps = 0
  /\ last_delay = 0
  /\ last_request = <<>>
  /\ accepted_count = 0
  /\ coursework = <<>>
  /\ submissions = <<>>
  /\ metrics = NewMetrics(0)
  /\ mpc = "start"
  /\ DetailIdle
  /\ GuiIdle
  /\ FetchIdle /\ student_analysis = <<>> /\ SaveIdle /\ ValidateIdle

(* ------------------------- generate_reports ---------------------------- *)
LoopVarsUnchanged ==
  UNCHANGED <<student_items, additional_context, BATCH_SIZE, MAX_RETRIES, mvars, ovars>>

(* range(0, len(student_items), BATCH_SIZE) raises ValueError for step 0 *)
EnterRaises ==
  /\ pc = "enter" /\ BATCH_SIZE = 0
  /\ pc' = "raised"
  /\ LoopVarsUnchanged
  /\ UNCHANGED <<start, batch, individual_responses, i, category, attempts,
                 valid_response, results, batches, batch_calls, retry_calls,
                 all_malformed>>
  /\ UNCHANGED hvars

Enter ==
  /\ pc = "enter" /\ BATCH_SIZE # 0
  /\ pc' = "loop" /\ start' = 0
  /\ LoopVarsUnchanged
  /\ UNCHANGED <<batch, individual_responses, i, category, attempts,
                 valid_response, results, batches, batch_calls, retry_calls,
                 all_malformed>>
  /\ UNCHANGED hvars

MoreBatches == BATCH_SIZE > 0 /\ start < Len(student_items)

(* SliceBatch with the end of the slice taken as inclusive *)
SliceBatch_InclusiveEnd(items, from, size) ==
  SubSeq(items, from + 1, Min(from + size + 1, Len(items)))

(* student_items[start:start + BATCH_SIZE] *)
SliceBatch(items, from, size) == SubSeq(items, from + 1, Min(from + size, Len(items)))

Return ==
  /\ pc = "loop" /\ ~MoreBatches
  /\ pc' = "done"
  /\ LoopVarsUnchanged
  /\ UNCHANGED <<start, batch, individual_responses, i, category, attempts,
                 valid_response, results, batches, batch_calls, retry_calls,
                 all_malformed>>
  /\ UNCHANGED hvars

BatchCallRaises ==
  /\ pc = "loop" /\ MoreBatches
  /\ pc' = "raised"
  /\ batch' = SliceBatch(student_items, start, BATCH_SIZE)
  /\ batches' = Append(batches, batch')
  /\ batch_calls' = batch_calls + 1
  /\ all_malformed' = FALSE
  /\ LoopVarsUnchanged
  /\ UNCHANGED <<start, individual_responses, i, category, attempts,
                 valid_response, results, retry_calls>>
  /\ last_request' = batch'
  /\ UNCHANGED <<sleeps, last_delay, accepted_count>>

BatchCallReturns ==
  /\ pc = "loop" /\ MoreBatches
  /\ \E fragments \in SplitReplies :
       LET b == SliceBatch(student_items, start, BATCH_SIZE)
       IN /\ batch' = b
          /\ individual_responses' = fragments
          /\ pc' = IF Len(fragments) # Len(b) THEN "mismatch" ELSE "match"
          /\ all_malformed' = (all_malformed /\ ~WellFormed(fragments, Len(b)))
  /\ batches' = Append(batches, batch')
  /\ batch_calls' = batch_calls + 1
  /\ i' = 0
  /\ LoopVarsUnchanged
  /\ UNCHANGED <<start, category, attempts, valid_response, results, retry_calls>>
  /\ last_request' = batch'
  /\ UNCHANGED <<sleeps, last_delay, accepted_count>>

(* the students of a batch taken from its end *)
sid_FromEnd == batch[Len(batch) - i]

(* the student the loop over the batch is at *)
sid == batch[i + 1]

(* attempts is unbounded when retries are infinite; the model stops        *)
(* counting one past the largest finite retry setting                      *)
AttemptCap == MaxRetries + 1

Bump(n) == IF INFINITE_RETRIES THEN Min(n + 1, AttemptCap) ELSE n + 1

(* backoff without the ceiling of 30 seconds *)
backoff_NoCeiling(a) == 2 ^ (a - 1)

(* min(RETRY_BASE_SECONDS * 2 ** (attempts - 1), 30) *)
backoff(a) == Min(2 ^ (a - 1), 30)

LoopGuard(a) == INFINITE_RETRIES \/ a < MAX_RETRIES

(* RetryBody with the prompt built from the whole batch *)
RetryBody_WholeBatch(path, single_responses, raised) ==
  LET candidate == IF single_responses # <<>> THEN single_responses[1] ELSE None
      candidate_cat == IF single_responses # <<>> THEN extract_category(candidate) ELSE None
      ok == single_responses # <<>> /\ Truthy(candidate_cat) /\ InCategories(candidate_cat)
  IN /\ pc = path /\ LoopGuard(attempts)
     /\ attempts' = Bump(attempts)
     /\ retry_calls' = Bump(retry_calls)
     /\ all_malformed' = (all_malformed /\ ~raised /\ ~WellFormed(single_responses, 1))
     /\ valid_response' = IF ok THEN candidate ELSE valid_response
     /\ pc' = IF ok THEN "store" ELSE path
     /\ last_request' = batch
     /\ sleeps' = IF ok THEN sleeps ELSE Bump(sleeps)
     /\ last_delay' = IF ok THEN last_delay ELSE backoff(attempts')
     /\ accepted_count' = IF ok THEN Len(single_responses) ELSE 0
     /\ LoopVarsUnchanged
     /\ UNCHANGED <<start, batch, individual_responses, i, category, results,
                    batches, batch_calls>>

(* one pass through the body of the retry loop: the single-student call    *)
(* returns text (or raises, which leaves single_ai = ""), the text is      *)
(* split into single_responses, the                                        *)
(* candidate is single_responses[0]; a valid candidate breaks out of the   *)
(* loop, anything else sleeps and goes round again                         *)
RetryBody(path, single_responses, raised) ==
  LET candidate == IF single_responses # <<>> THEN single_responses[1] ELSE None
      candidate_cat == IF single_responses # <<>> THEN extract_category(candidate) ELSE None
      ok == single_responses # <<>> /\ Truthy(candidate_cat) /\ InCategories(candidate_cat)
  IN /\ pc = path /\ LoopGuard(attempts)
     /\ attempts' = Bump(attempts)
     /\ retry_calls' = Bump(retry_calls)
     /\ all_malformed' = (all_malformed /\ ~raised /\ ~WellFormed(single_responses, 1))
     /\ valid_response' = IF ok THEN candidate ELSE valid_response
     /\ pc' = IF ok THEN "store" ELSE path
     /\ last_request' = <<sid>>
     /\ sleeps' = IF ok THEN sleeps ELSE Bump(sleeps)
     /\ last_delay' = IF ok THEN last_delay ELSE backoff(attempts')
     /\ accepted_count' = IF ok THEN Len(single_responses) ELSE 0
     /\ LoopVarsUnchanged
     /\ UNCHANGED <<start, batch, individual_responses, i, category, results,
                    batches, batch_calls>>

RetryExit(path) ==
  /\ pc = path /\ ~LoopGuard(attempts)
  /\ pc' = "store"
  /\ LoopVarsUnchanged
  /\ UNCHANGED <<start, batch, individual_responses, i, category, attempts,
                 valid_response, results, batches, batch_calls, retry_calls,
                 all_malformed>>
  /\ UNCHANGED hvars

(* ---- fragment count differs from the batch size (lines 78-129) ---- *)
MismatchAssign ==
  /\ pc = "mismatch" /\ i < Len(batch) /\ i < Len(individual_responses)
  /\ results' = Put(results, sid, remove_markdown_bold(individual_responses[i + 1]))
  /\ i' = i + 1
  /\ retry_calls' = 0
  /\ LoopVarsUnchanged
  /\ UNCHANGED <<pc, start, batch, individual_responses, category, attempts,
                 valid_response, batches, batch_calls, all_malformed>>
  /\ sleeps' = 0 /\ last_delay' = 0 /\ accepted_count' = 0
  /\ UNCHANGED last_request

MismatchBeginRetry ==
  /\ pc = "mismatch" /\ i < Len(batch) /\ i >= Len(individual_responses)
  /\ attempts' = 0
  /\ valid_response' = None
  /\ pc' = "mismatch_retry"
  /\ retry_calls' = 0
  /\ LoopVarsUnchanged
  /\ UNCHANGED <<start, batch, individual_responses, i, category, results,
                 batches, batch_calls, all_malformed>>
  /\ sleeps' = 0 /\ last_delay' = 0 /\ accepted_count' = 0
  /\ UNCHANGED last_request

MismatchRetryReturns ==
  \E fragments \in SplitReplies : RetryBody("mismatch_retry", fragments, FALSE)

MismatchRetryRaises == RetryBody("mismatch_retry", ParseFragments(<<>>), TRUE)

MismatchRetryExit == RetryExit("mismatch_retry")

MismatchStore ==
  /\ pc = "store" /\ Len(individual_responses) # Len(batch)
  /\ LET response == IF Truthy(valid_response) THEN valid_response
                     ELSE UnableFallback(MetricsOf(sid))
     IN results' = Put(results, sid, remove_markdown_bold(response))
  /\ i' = i + 1
  /\ pc' = "mismatch"
  /\ LoopVarsUnchanged
  /\ UNCHANGED <<start, batch, individual_responses, category, attempts,
                 valid_response, batches, batch_calls, retry_calls, all_malformed>>
  /\ accepted_count' = 0
  /\ UNCHANGED <<sleeps, last_delay, last_request>>

MismatchContinue ==
  /\ pc = "mismatch" /\ i = Len(batch)
  /\ start' = start + BATCH_SIZE
  /\ pc' = "loop"
  /\ LoopVarsUnchanged
  /\ UNCHANGED <<batch, individual_responses, i, category, attempts,
                 valid_response, results, batches, batch_calls, retry_calls,
                 all_malformed>>
  /\ UNCHANGED hvars

(* ---- one fragment per student of the batch (lines 131-193) ---- *)
MatchStoreValid ==
  /\ pc = "match" /\ i < Len(batch)
  /\ LET response == individual_responses[i + 1]
         cat == extract_category(response)
     IN /\ ~(~Truthy(cat) \/ ~InCategories(cat))
        /\ category' = cat
        /\ results' = Put(results, sid, remove_markdown_bold(response))
  /\ i' = i + 1
  /\ retry_calls' = 0
  /\ LoopVarsUnchanged
  /\ UNCHANGED <<pc, start, batch, individual_responses, attempts,
                 valid_response, batches, batch_calls, all_malformed>>
  /\ sleeps' = 0 /\ last_delay' = 0 /\ accepted_count' = 0
  /\ UNCHANGED last_request

MatchBeginRetry ==
  /\ pc = "match" /\ i < Len(batch)
  /\ LET cat == extract_category(individual_responses[i + 1])
     IN /\ (~Truthy(cat) \/ ~InCategories(cat))
        /\ category' = cat
  /\ attempts' = 0
  /\ valid_response' = None
  /\ pc' = "match_retry"
  /\ retry_calls' = 0
  /\ LoopVarsUnchanged
  /\ UNCHANGED <<start, batch, individual_responses, i, results,
                 batches, batch_calls, all_malformed>>
  /\ sleeps' = 0 /\ last_delay' = 0 /\ accepted_count' = 0
  /\ UNCHANGED last_request

MatchRetryReturns ==
  \E fragments \in SplitReplies : RetryBody("match_retry", fragments, FALSE)

(* MatchRetryRaises with the exception leaving generate_reports *)
MatchRetryRaises_Propagates ==
  /\ pc = "match_retry" /\ LoopGuard(attempts)
  /\ pc' = "raised"
  /\ attempts' = Bump(attempts)
  /\ retry_calls' = Bump(retry_calls)
  /\ all_malformed' = FALSE
  /\ last_request' = <<sid>>
  /\ LoopVarsUnchanged
  /\ UNCHANGED <<start, batch, individual_responses, i, category, results,
                 batches, batch_calls, valid_response, sleeps, last_delay,
                 accepted_count>>

MatchRetryRaises == RetryBody("match_retry", ParseFragments(<<>>), TRUE)

MatchRetryExit == RetryExit("match_retry")

MatchStore ==
  /\ pc = "store" /\ Len(individual_responses) = Len(batch)
  /\ LET response ==
           IF Truthy(valid_response) THEN valid_response
           ELSE IF Truthy(category) /\ ~InCategories(category)
                THEN InvalidCategoryFallback(category, MetricsOf(sid))
                ELSE UnableFallback(MetricsOf(sid))
     IN results' = Put(results, sid, remove_markdown_bold(response))
  /\ i' = i + 1
  /\ pc' = "match"
  /\ LoopVarsUnchanged
  /\ UNCHANGED <<start, batch, individual_responses, category, attempts,
                 valid_response, batches, batch_calls, retry_calls, all_malformed>>
  /\ accepted_count' = 0
  /\ UNCHANGED <<sleeps, last_delay, last_request>>

MatchNextBatch ==
  /\ pc = "match" /\ i = Len(batch)
  /\ start' = start + BATCH_SIZE
  /\ pc' = "loop"
  /\ LoopVarsUnchanged
  /\ UNCHANGED <<batch, individual_responses, i, category, attempts,
                 valid_response, results, batches, batch_calls, retry_calls,
                 all_malformed>>
  /\ UNCHANGED hvars

Next ==
  \/ EnterRaises \/ Enter \/ Return
  \/ BatchCallRaises \/ BatchCallReturns
  \/ MismatchAssign \/ MismatchBeginRetry
  \/ MismatchRetryReturns \/ MismatchRetryRaises \/ MismatchRetryExit
  \/ MismatchStore \/ MismatchContinue
  \/ MatchStoreValid \/ MatchBeginRetry
  \/ MatchRetryReturns \/ MatchRetryRaises \/ MatchRetryExit
  \/ MatchStore \/ MatchNextBatch

Spec == Init /\ [][Next]_vars

(* the run keeps executing its next statement until it returns or raises *)
FairSpec == Spec /\ WF_vars(Next)

(* ---- generate_reports with retry settings large enough for the cap ---- *)
(* the delay reaches its ceiling of 30 at the sixth failed attempt         *)
MaxBackoffRetries == 7

InitBackoff ==
  /\ student_items = <<"s1", "s2">>
  /\ additional_context = <<>>
  /\ BATCH_SIZE \in {0, 1, 2}
  /\ MAX_RETRIES \in 1..MaxBackoffRetries
  /\ pc = "enter"
  /\ start = 0
  /\ batch = <<>>
  /\ individual_responses = <<>>
  /\ i = 0
  /\ category = None
  /\ attempts = 0
  /\ valid_response = None
  /\ results = <<>>
  /\ batches = <<>>
  /\ batch_calls = 0
  /\ retry_calls = 0
  /\ all_malformed = TRUE
  /\ sleeps = 0
  /\ last_delay = 0
  /\ last_request = <<>>
  /\ accepted_count = 0
  /\ coursework = <<>>
  /\ submissions = <<>>
  /\ metrics = NewMetrics(0)
  /\ mpc = "start"
  /\ DetailIdle
  /\ GuiIdle
  /\ FetchIdle /\ student_analysis = <<>> /\ SaveIdle /\ ValidateIdle

SpecBackoff == InitBackoff /\ [][Next]_vars

(* ------------------ analyse_students as a state machine ----------------- *)
MaxItems == 2
(* maxPoints may be unset or 0; an assigned grade may be unset, 0, or any    *)
(* non-negative number, also one above the item's maximum                  *)
MaxPointsValues == {Absent, Some(0), Some(2)}
GradeValues == {Absent, Some(0), Some(1), Some(2), Some(3)}
SubmissionValues ==
  {Absent} \cup {Some([late |-> l, assignedGrade |-> g]) : l \in BOOLEAN, g \in GradeValues}

InitMetrics ==
  /\ student_items = <<"s1">>
  /\ additional_context = <<>>
  /\ BATCH_SIZE = 2
  /\ MAX_RETRIES = 5
  /\ pc = "enter"
  /\ start = 0
  /\ batch = <<>>
  /\ individual_responses = <<>>
  /\ i = 0
  /\ category = None
  /\ attempts = 0
  /\ valid_response = None
  /\ results = <<>>
  /\ batches = <<>>
  /\ batch_calls = 0
  /\ retry_calls = 0
  /\ all_malformed = TRUE
  /\ sleeps = 0
  /\ last_delay = 0
  /\ last_request = <<>>
  /\ accepted_count = 0
  /\ \E n \in 0..MaxItems :
       /\ coursework \in [1..n -> MaxPointsValues]
       /\ submissions \in [1..n -> SubmissionValues]
  /\ metrics = NewMetrics(0)
  /\ mpc = "start"
  /\ DetailIdle
  /\ GuiIdle
  /\ FetchIdle /\ student_analysis = <<>> /\ SaveIdle /\ ValidateIdle

analyse_students ==
  /\ mpc = "start"
  /\ metrics' = StudentMetrics(coursework, submissions)
  /\ mpc' = "done"
  /\ UNCHANGED <<cvars, coursework, submissions, dvars, ovars>>

NextMetrics == analyse_students

SpecMetrics == InitMetrics /\ [][NextMetrics]_vars

(* ------------- save_reports_to_file: grouping by category --------------- *)
(* the other specifications leave every variable of generate_reports and   *)
(* of the single-student metrics computation as it is on entry             *)
ClassifierIdle ==
  /\ student_items = <<"s1">>
  /\ additional_context = <<>>
  /\ BATCH_SIZE = 2
  /\ MAX_RETRIES = 5
  /\ pc = "enter"
  /\ start = 0
  /\ batch = <<>>
  /\ individual_responses = <<>>
  /\ i = 0
  /\ category = None
  /\ attempts = 0
  /\ valid_response = None
  /\ results = <<>>
  /\ batches = <<>>
  /\ batch_calls = 0
  /\ retry_calls = 0
  /\ all_malformed = TRUE
  /\ sleeps = 0
  /\ last_delay = 0
  /\ last_request = <<>>
  /\ accepted_count = 0

MetricsIdle ==
  /\ submissions = <<>>
  /\ metrics = NewMetrics(0)
  /\ mpc = "start"
  /\ DetailIdle

(* profile.name of a student: both parts may be missing *)
NameValues ==
  {[givenName |-> <<>>, familyName |-> <<>>],
   [givenName |-> <<"Ann">>, familyName |-> <<"Lee">>]}

(* " ".join(filter(None, [givenName, familyName])).strip() or sid *)
FullName(rec) ==
  LET parts == SelectSeq(<<rec.name.givenName, rec.name.familyName>>, NonEmpty)
      joined == IF Len(parts) = 0 THEN <<>>
                ELSE IF Len(parts) = 1 THEN parts[1]
                ELSE parts[1] \o <<"SP">> \o parts[2]
  IN IF Strip(joined) # <<>> THEN Strip(joined) ELSE <<rec.sid>>

(* the coursework list of a student's record: no item at all, or one item  *)
(* for which the student has no submission                                 *)
SavedCoursework ==
  {<<>>, <<[maxPoints |-> Some(2), submission |-> Absent]>>}

(* texts generate_reports stores: a fragment with an allowed category, one *)
(* with a category outside the list, one without a category line           *)
SavedTexts == {remove_markdown_bold(FragValid), FragInvalid, FragNoCategory}

(* lines 43-50: the category of a student as save_reports_to_file reads it *)
ResolveCategory(sid_, reps) ==
  IF sid_ \in DOMAIN reps
  THEN LET c == extract_category(reps[sid_])
       IN IF c = None THEN <<"Needs Review">> ELSE c
  ELSE <<"N/A">>

(* category_groups.setdefault(category, []).append(full_name) with the     *)
(* list replaced instead of extended                                       *)
GroupAppend_Overwrite(groups, cat, full_name) ==
  Put(groups, cat, <<full_name>>)

(* category_groups.setdefault(category, []).append(full_name) *)
GroupAppend(groups, cat, full_name) ==
  Put(groups, cat,
      (IF cat \in DOMAIN groups THEN groups[cat] ELSE <<>>) \o <<full_name>>)

InitSave ==
  /\ ClassifierIdle /\ GuiIdle /\ MetricsIdle /\ coursework = <<>>
  /\ FetchIdle /\ ValidateIdle
  /\ \E n \in 1..MaxStudents :
       /\ student_analysis \in
            [1..n -> [sid : {StudentIds[j] : j \in 1..n},
                      name : NameValues, coursework : SavedCoursework]]
       /\ \A j \in 1..n : student_analysis[j].sid = StudentIds[j]
       /\ \E with \in SUBSET {StudentIds[j] : j \in 1..n} :
            reports \in [with -> SavedTexts]
  /\ category_groups = <<>>
  /\ save_pos = 0

(* one pass of `for sid in student_analysis` (lines 38-130); what the pass *)
(* writes to the report file changes none of the variables                 *)
SaveStudent ==
  /\ save_pos < Len(student_analysis)
  /\ LET rec == student_analysis[save_pos + 1]
     IN category_groups' =
          GroupAppend(category_groups, ResolveCategory(rec.sid, reports), FullName(rec))
  /\ save_pos' = save_pos + 1
  /\ UNCHANGED <<cvars, mvars, gvars, fvars, vvars, student_analysis, reports>>

NextSave == SaveStudent

SpecSave == InitSave /\ [][NextSave]_vars

(* ------------- analyse_students: the bulk fetch (lines 29-48) ----------- *)
(* a submission as Classroom returns it; userId may be missing              *)
HeldSubmission(u) == [userId |-> u, late |-> FALSE, assignedGrade |-> Some(1)]

(* what Classroom holds for one coursework item: at most one submission    *)
(* per student of the set has, listed in the order of the students         *)
RECURSIVE HeldList(_, _, _)
HeldList(studs, has, n) ==
  IF n = 0 THEN <<>>
  ELSE HeldList(studs, has, n - 1) \o
         (IF studs[n] \in has THEN <<HeldSubmission(Some(studs[n]))>> ELSE <<>>)

(* for sub in subs: sid = sub.get("userId"); if sid: lookup[(sid, id)] = sub *)
RECURSIVE StoreSubs(_, _, _, _)
StoreSubs(lookup, subs, item, n) ==
  IF n = 0 THEN lookup
  ELSE LET before == StoreSubs(lookup, subs, item, n - 1)
           sub == subs[n]
       IN IF IsPresent(sub.userId)
          THEN Put(before, <<Val(sub.userId), item>>, sub)
          ELSE before

(* submissions_lookup.get((sid, cw["id"])) *)
LookupGet(lookup, sid_, item) ==
  IF <<sid_, item>> \in DOMAIN lookup THEN Some(lookup[<<sid_, item>>]) ELSE Absent

InitFetch ==
  /\ ClassifierIdle /\ GuiIdle /\ MetricsIdle /\ SaveIdle /\ ValidateIdle
  /\ \E n \in 1..MaxStudents : students = SubSeq(StudentIds, 1, n)
  /\ \E m \in 0..MaxItems :
       /\ coursework \in [1..m -> {Some(2)}]
       /\ \E has \in [1..m -> SUBSET {students[j] : j \in 1..Len(students)}] :
            \E nameless \in [1..m -> BOOLEAN] :
              /\ \A k \in 1..m : nameless[k] => k = 1
              /\ remote = [k \in 1..m |->
                             (IF nameless[k] THEN <<HeldSubmission(Absent)>> ELSE <<>>)
                               \o HeldList(students, has[k], Len(students))]
  /\ fetch_pos = 0
  /\ submissions_lookup = <<>>
  /\ fetch_failed = {}
  /\ fetch_pc = "fetch"
  /\ student_analysis = <<>>

(* the list request for the next item returns and its submissions are cached *)
FetchReturns ==
  /\ fetch_pc = "fetch" /\ fetch_pos < Len(coursework)
  /\ LET item == fetch_pos + 1
     IN submissions_lookup' =
          StoreSubs(submissions_lookup, remote[item], item, Len(remote[item]))
  /\ fetch_pos' = fetch_pos + 1
  /\ UNCHANGED <<cvars, mvars, gvars, svars, vvars, students, remote, fetch_failed, fetch_pc>>

(* FetchRaises with the exception ending the whole fetch loop *)
FetchRaises_EndsLoop ==
  /\ fetch_pc = "fetch" /\ fetch_pos < Len(coursework)
  /\ fetch_failed' = fetch_failed \cup {fetch_pos + 1}
  /\ fetch_pos' = Len(coursework)
  /\ UNCHANGED <<cvars, mvars, gvars, svars, vvars, students, remote, submissions_lookup,
                 fetch_pc>>

(* the list request for the next item raises: logged, the loop goes on *)
FetchRaises ==
  /\ fetch_pc = "fetch" /\ fetch_pos < Len(coursework)
  /\ fetch_failed' = fetch_failed \cup {fetch_pos + 1}
  /\ fetch_pos' = fetch_pos + 1
  /\ UNCHANGED <<cvars, mvars, gvars, svars, vvars, students, remote, submissions_lookup,
                 fetch_pc>>

FetchFinished ==
  /\ fetch_pc = "fetch" /\ fetch_pos = Len(coursework)
  /\ fetch_pc' = "analyse"
  /\ UNCHANGED <<cvars, mvars, gvars, svars, vvars, students, remote, fetch_pos,
                 submissions_lookup, fetch_failed>>

(* one pass of `for idx, s in enumerate(students, 1)` (lines 52-147) *)
AnalyseStudent ==
  /\ fetch_pc = "analyse" /\ Len(student_analysis) < Len(students)
  /\ LET s == students[Len(student_analysis) + 1]
         subs == [k \in 1..Len(coursework) |-> LookupGet(submissions_lookup, s, k)]
     IN student_analysis' =
          Append(student_analysis, [sid |-> s, metrics |-> StudentMetrics(coursework, subs)])
  /\ UNCHANGED <<cvars, mvars, gvars, fvars, vvars, reports, category_groups, save_pos>>

AnalyseReturn ==
  /\ fetch_pc = "analyse" /\ Len(student_analysis) = Len(students)
  /\ fetch_pc' = "done"
  /\ UNCHANGED <<cvars, mvars, gvars, svars, vvars, students, remote, fetch_pos,
                 submissions_lookup, fetch_failed>>

NextFetch ==
  \/ FetchReturns \/ FetchRaises \/ FetchFinished
  \/ AnalyseStudent \/ AnalyseReturn

SpecFetch == InitFetch /\ [][NextFetch]_vars

(* ------- validation of one fragment of a count-matching reply ----------- *)
MaxFragmentLen == 6

(* what a fragment is made of: the label prefix, blanks, line ends, an      *)
(* allowed label, the same label in lower case, and asterisks               *)
FragmentTokens == {"Category:", "SP", "NL", "At Risk", "at risk", "*"}

(* the fragments the split at line 76 can produce: stripped and non-empty  *)
FragmentTexts ==
  {f \in UNION {[1..n -> FragmentTokens] : n \in 1..MaxFragmentLen} : Strip(f) = f}

InitValidate ==
  /\ ClassifierIdle /\ GuiIdle /\ MetricsIdle /\ coursework = <<>>
  /\ FetchIdle /\ student_analysis = <<>> /\ SaveIdle
  /\ fragment \in FragmentTexts
  /\ verdict = "pending"
  /\ stored = <<>>

(* lines 141-152 and 192: the category is in the list, the fragment is the *)
(* student's response                                                      *)
AcceptFragment ==
  /\ verdict = "pending"
  /\ LET cat == extract_category(fragment)
     IN ~(~Truthy(cat) \/ ~InCategories(cat))
  /\ verdict' = "accepted"
  /\ stored' = remove_markdown_bold(fragment)
  /\ UNCHANGED <<cvars, mvars, gvars, fvars, svars, fragment>>

(* line 152: no category or one outside the list starts the retry loop *)
RejectFragment ==
  /\ verdict = "pending"
  /\ LET cat == extract_category(fragment)
     IN ~Truthy(cat) \/ ~InCategories(cat)
  /\ verdict' = "retry"
  /\ UNCHANGED <<cvars, mvars, gvars, fvars, svars, fragment, stored>>

NextValidate == AcceptFragment \/ RejectFragment

SpecValidate == InitValidate /\ [][NextValidate]_vars

(* ---------------- remove_markdown_bold on arbitrary text -------------- *)
StripTokens == {"*", "x", "NL"}

StripTexts == UNION {[1..n -> StripTokens] : n \in 0..MaxFragmentLen}

InitStrip ==
  /\ ClassifierIdle /\ GuiIdle /\ MetricsIdle /\ coursework = <<>>
  /\ FetchIdle /\ student_analysis = <<>> /\ SaveIdle
  /\ fragment \in StripTexts
  /\ verdict = "unstripped"
  /\ stored = <<>>

(* the function applied to the text *)
StripOnce ==
  /\ verdict = "unstripped"
  /\ stored' = remove_markdown_bold(fragment)
  /\ verdict' = "stripped"
  /\ UNCHANGED <<cvars, mvars, gvars, fvars, svars, fragment>>

(* the function applied to its own output *)
StripTwice ==
  /\ verdict = "stripped"
  /\ stored' = remove_markdown_bold(stored)
  /\ verdict' = "stripped twice"
  /\ UNCHANGED <<cvars, mvars, gvars, fvars, svars, fragment>>

NextStrip == StripOnce \/ StripTwice

(* a run of generate_reports *)
NextReports == verdict = "idle" /\ Next

(* either a run of generate_reports, or the function applied to a text *)
SpecStrip == (Init \/ InitStrip) /\ [][NextReports \/ NextStrip]_vars

(* ------------- the detail rows of the prompt and of the file ------------- *)
(* a submission as Classroom returns it: its state (the key may be missing, *)
(* read as ""), its late flag and its assigned grade, if any                *)
DetailStates == {"", "NEW", "CREATED", "TURNED_IN"}
DetailGrades == {Absent, Some(0), Some(1)}
DetailMaxPoints == {Absent, Some(2)}
DetailSubmissions ==
  {Absent} \cup {Some([state |-> st, late |-> l, assignedGrade |-> g]) :
                   st \in DetailStates, l \in BOOLEAN, g \in DetailGrades}

(* the status chain before the grade is looked at *)
StateStatus(sub) ==
  IF Val(sub).state \in {"NEW", "CREATED"} THEN "Missing"
  ELSE IF Val(sub).late THEN "Late"
  ELSE "Submitted"

(* generate_reports: status of one row of detailed_submissions *)
PromptStatus(sub) ==
  IF ~IsPresent(sub) THEN "Missing"
  ELSE IF IsPresent(Val(sub).assignedGrade) /\ Val(Val(sub).assignedGrade) = 0
       THEN "Missing"
       ELSE StateStatus(sub)

(* save_reports_to_file: status of one row of the table; the grade is      *)
(* looked at only when the item has maxPoints                              *)
FileStatus(max_p, sub) ==
  IF ~IsPresent(sub) THEN "Missing"
  ELSE IF /\ IsPresent(Val(sub).assignedGrade) /\ IsPresent(max_p)
          /\ Val(Val(sub).assignedGrade) = 0
       THEN "Missing"
       ELSE StateStatus(sub)

InitDetail ==
  /\ ClassifierIdle /\ GuiIdle
  /\ \E n \in 0..MaxItems :
       /\ coursework \in [1..n -> DetailMaxPoints]
       /\ submissions \in [1..n -> DetailSubmissions]
  /\ metrics = NewMetrics(0)
  /\ mpc = "start"
  /\ detailed_submissions = <<>>
  /\ file_rows = <<>>
  /\ dpc = "prompt"
  /\ FetchIdle /\ student_analysis = <<>> /\ SaveIdle /\ ValidateIdle

(* generate_reports: the loop over data["coursework"] *)
BuildPromptRows ==
  /\ dpc = "prompt"
  /\ detailed_submissions' =
       [k \in 1..Len(coursework) |-> [item |-> k, status |-> PromptStatus(submissions[k])]]
  /\ dpc' = "file"
  /\ UNCHANGED <<cvars, coursework, submissions, metrics, mpc, file_rows, ovars>>

(* save_reports_to_file: the loop over student_analysis[sid]["coursework"] *)
WriteFileRows ==
  /\ dpc = "file"
  /\ file_rows' =
       [k \in 1..Len(coursework) |->
          [item |-> k, status |-> FileStatus(coursework[k], submissions[k])]]
  /\ dpc' = "done"
  /\ UNCHANGED <<cvars, coursework, submissions, metrics, mpc, detailed_submissions, ovars>>

NextDetail == BuildPromptRows \/ WriteFileRows

SpecDetail == InitDetail /\ [][NextDetail]_vars

(* --------------------- gui: the Run Analysis button ---------------------- *)
MaxRuns == 2
Modes == {1, 2, 3}
CourseSelections == {"", "Maths (c1)"}
StudentSelections == {"", "Ann (s1)"}
BatchEntries == {"1", "2"}

InitGui ==
  /\ ClassifierIdle /\ MetricsIdle /\ coursework = <<>>
  /\ FetchIdle /\ student_analysis = <<>> /\ SaveIdle /\ ValidateIdle
  /\ run_btn = "normal"
  /\ threads = <<>>
  /\ environ = Absent
  /\ batch_size_var \in BatchEntries
  /\ dialog = ""

GuiOthersUnchanged == UNCHANGED <<cvars, mvars, fvars, svars, vvars>>

SetPc(t, to) == [threads EXCEPT ![t].pc = to]

(* the user types another value into the batch size entry *)
EditBatchSize ==
  /\ \E v \in BatchEntries \ {batch_size_var} : batch_size_var' = v
  /\ UNCHANGED <<run_btn, threads, environ, dialog>>
  /\ GuiOthersUnchanged

(* on_run: the command of the button, which a disabled button does not     *)
(* invoke; it checks the selections and starts the thread                  *)
on_run ==
  /\ run_btn = "normal"
  /\ Len(threads) < MaxRuns
  /\ \E mode \in Modes, course_sel \in CourseSelections, student_sel \in StudentSelections :
       IF mode \in {2, 3} /\ course_sel = ""
       THEN dialog' = "Please select a course." /\ UNCHANGED threads
       ELSE IF mode = 3 /\ student_sel = ""
       THEN dialog' = "Please select a student." /\ UNCHANGED threads
       ELSE /\ threads' = Append(threads, [pc |-> "start", batch_size |-> Absent,
                                            BATCH_SIZE |-> Absent])
            /\ UNCHANGED dialog
  /\ UNCHANGED <<run_btn, environ, batch_size_var>>
  /\ GuiOthersUnchanged

(* target: self.run_btn.configure(state="disabled") *)
TargetDisable ==
  \E t \in 1..Len(threads) :
      /\ threads[t].pc = "start"
      /\ run_btn' = "disabled"
      /\ threads' = SetPc(t, "call")
      /\ UNCHANGED <<environ, batch_size_var, dialog>>
      /\ GuiOthersUnchanged

(* target: the arguments are read from the entries and run_with_params     *)
(* puts them into os.environ                                               *)
run_with_params ==
  \E t \in 1..Len(threads) :
      /\ threads[t].pc = "call"
      /\ threads' = [threads EXCEPT ![t].pc = "running", ![t].batch_size = Some(batch_size_var)]
      /\ environ' = Some(batch_size_var)
      /\ UNCHANGED <<run_btn, batch_size_var, dialog>>
      /\ GuiOthersUnchanged

(* generate_reports of the run reads AI_BATCH_SIZE *)
ReadBatchSize ==
  \E t \in 1..Len(threads) :
      /\ threads[t].pc = "running"
      /\ threads' = [threads EXCEPT ![t].pc = "analysing", ![t].BATCH_SIZE = environ]
      /\ UNCHANGED <<run_btn, environ, batch_size_var, dialog>>
      /\ GuiOthersUnchanged

RunReturns ==
  \E t \in 1..Len(threads) :
      /\ threads[t].pc = "analysing"
      /\ threads' = SetPc(t, "finally")
      /\ UNCHANGED <<run_btn, environ, batch_size_var, dialog>>
      /\ GuiOthersUnchanged

(* except Exception: the error is logged and shown *)
RunRaises ==
  \E t \in 1..Len(threads) :
      /\ threads[t].pc \in {"running", "analysing"}
      /\ threads' = SetPc(t, "finally")
      /\ dialog' = "Analysis Error"
      /\ UNCHANGED <<run_btn, environ, batch_size_var>>
      /\ GuiOthersUnchanged

(* finally: self.run_btn.configure(state="normal") *)
TargetFinally ==
  \E t \in 1..Len(threads) :
      /\ threads[t].pc = "finally"
      /\ run_btn' = "normal"
      /\ threads' = SetPc(t, "ended")
      /\ UNCHANGED <<environ, batch_size_var, dialog>>
      /\ GuiOthersUnchanged

NextGui ==
  \/ EditBatchSize
  \/ on_run
  \/ TargetDisable \/ run_with_params \/ ReadBatchSize
  \/ RunReturns \/ RunRaises \/ TargetFinally

SpecGui == InitGui /\ [][NextGui]_vars

(* ============================== properties ============================== *)
Contains(text, sub) ==
  \E k \in 0..(Len(text) - Len(sub)) : SubSeq(text, k + 1, k + Len(sub)) = sub

StoredCategory(s) == extract_category(results[s])

Finished == pc \in {"done", "raised"}

(* C1 -- Totality: for a positive batch size and max_retries > 0, whatever  *)
(* the external calls do (raise or return malformed text), the run ends by *)
(* returning a mapping with exactly one entry per input student id.        *)
C1_Totality ==
  (BATCH_SIZE > 0 /\ MAX_RETRIES > 0 /\ Finished)
    => (pc = "done" /\ DOMAIN results = Sids)

(* C2 -- Category closure: the category (value of the 'Category:' line) of *)
(* every entry stored in results is a member of the categories list.       *)
C2_CategoryClosure ==
  \A s \in DOMAIN results : InCategories(StoredCategory(s))

(* C3 -- generate_reports never propagates an exception raised by an       *)
(* external classification call (batch request or single-student retry).   *)
C3_NoPropagation ==
  BATCH_SIZE > 0 => pc # "raised"

(* C4 -- The run always completes: generate_reports eventually returns,    *)
(* whatever the external function does.  Stated for the most favourable    *)
(* configuration (positive batch size, bounded retries).                   *)
C4_EventuallyReturns ==
  (BATCH_SIZE > 0 /\ MAX_RETRIES > 0) => <>(pc = "done")

(* C5 -- Terminal fallback: when the retry loop of a student ends after N  *)
(* = max_retries > 0 failed attempts, the step that stores the student's   *)
(* result stores category "Needs Review" with a body that embeds the       *)
(* student's own metrics record, issues no external call and cannot raise. *)
RetriesExhausted ==
  pc = "store" /\ MAX_RETRIES > 0 /\ attempts = MAX_RETRIES /\ ~Truthy(valid_response)

C5_TerminalFallback ==
  [][RetriesExhausted =>
       /\ pc' # "raised"
       /\ batch_calls' = batch_calls /\ retry_calls' = retry_calls
       /\ sid \in DOMAIN results'
       /\ extract_category(results'[sid]) = <<"Needs Review">>
       /\ Contains(results'[sid], JsonDumps(MetricsOf(sid)))]_vars

(* C6 -- Retry termination: with max_retries = N > 0 and an external       *)
(* function that always returns malformed output, every student gets       *)
(* exactly N single-student attempts and then "Needs Review".              *)
Stores(s) == s \notin DOMAIN results /\ s \in DOMAIN results'

C6_RetryTermination ==
  [][\A s \in Sids :
       (Stores(s) /\ all_malformed' /\ MAX_RETRIES > 0)
         => /\ retry_calls' = MAX_RETRIES
            /\ extract_category(results'[s]) = <<"Needs Review">>]_vars

(* C7 -- Count mismatch: when the number of fragments differs from the     *)
(* batch size, every student of the batch that has been dealt with went    *)
(* through the per-student retry procedure (no fragment was stored).        *)
InMismatchedBatch ==
  \/ pc \in {"mismatch", "mismatch_retry"}
  \/ pc = "store" /\ Len(individual_responses) # Len(batch)

C7_CountMismatch ==
  [][\A s \in Sids :
       (InMismatchedBatch /\ Stores(s)) => retry_calls' >= 1]_vars

(* C8 -- Missing-as-zero equivalence: replacing "no submission record for  *)
(* item k" by a non-late submission with assigned grade 0 leaves           *)
(* average_all and the missing count unchanged.                            *)
PctEq(a, b) == a.num * b.den = b.num * a.den

ZeroGradeSubmission == Some([late |-> FALSE, assignedGrade |-> Some(0)])

C8_MissingAsZero ==
  mpc = "done" =>
    \A k \in 1..Len(coursework) :
      ~IsPresent(submissions[k]) =>
        LET alt == StudentMetrics(coursework, [submissions EXCEPT ![k] = ZeroGradeSubmission])
        IN PctEq(alt.average_all, metrics.average_all) /\ alt.missing = metrics.missing

(* C9 -- Average bounds.  As claimed: for all inputs both averages lie in  *)
(* [0, 100].                                                               *)
InBounds(p) == 0 <= p.num /\ p.num <= 100 * p.den

C9_AverageBounds_AllInputs ==
  mpc = "done" => InBounds(metrics.average_submitted) /\ InBounds(metrics.average_all)

(* C9 (amended) -- when every assigned grade on an item with a positive    *)
(* maximum is absent or between 0 and that maximum, both averages lie in   *)
(* [0, 100]; and for all inputs each average is 0.0 when no item qualifies *)
(* for its denominator.                                                    *)
GradesWithinMax ==
  \A k \in 1..Len(coursework) :
    (UsableMax(coursework[k]) /\ IsPresent(submissions[k])
       /\ IsPresent(Val(submissions[k]).assignedGrade))
      => /\ 0 <= Val(Val(submissions[k]).assignedGrade)
         /\ Val(Val(submissions[k]).assignedGrade) <= Val(coursework[k])

QualifiesSubmitted(k) ==
  /\ UsableMax(coursework[k]) /\ IsPresent(submissions[k])
  /\ IsPresent(Val(submissions[k]).assignedGrade)
  /\ Val(Val(submissions[k]).assignedGrade) # 0

QualifiesAll(k) == UsableMax(coursework[k]) /\ IsPresent(submissions[k])

C9_AverageBounds ==
  mpc = "done" =>
    /\ GradesWithinMax =>
         InBounds(metrics.average_submitted) /\ InBounds(metrics.average_all)
    /\ (\A k \in 1..Len(coursework) : ~QualifiesSubmitted(k))
         => metrics.average_submitted = ZeroPct
    /\ (\A k \in 1..Len(coursework) : ~QualifiesAll(k))
         => metrics.average_all = ZeroPct

C9_Witness ==
  /\ mpc = "done" /\ GradesWithinMax /\ Len(coursework) = 2
  /\ QualifiesSubmitted(1)
  /\ IsPresent(submissions[2]) /\ ~IsPresent(Val(submissions[2]).assignedGrade)
  /\ UsableMax(coursework[2])
  /\ metrics.average_submitted = Pct(1, 2) /\ metrics.average_all = Pct(1, 4)

(* C10 -- Batch partition: the batches are the consecutive slices          *)
(* [0,B), [B,2B), ... of the student list in original order; when the run  *)
(* returns they cover every student exactly once, every batch but the last *)
(* has exactly B students and the last has between 1 and B.                *)
RECURSIVE Flatten(_)
Flatten(ss) == IF ss = <<>> THEN <<>> ELSE Head(ss) \o Flatten(Tail(ss))

C10_BatchPartition ==
  LET n == Len(student_items)
      B == BATCH_SIZE
  IN /\ \A k \in 1..Len(batches) :
          /\ Len(batches[k]) = Min(B, n - (k - 1) * B)
          /\ \A j \in 1..Len(batches[k]) : batches[k][j] = student_items[(k - 1) * B + j]
     /\ (pc = "done" /\ B > 0) =>
          /\ Flatten(batches) = student_items
          /\ \A k \in 1..(Len(batches) - 1) : Len(batches[k]) = B
          /\ Len(batches[Len(batches)]) \in 1..B

C10_Witness ==
  /\ pc = "done" /\ Len(student_items) = 3 /\ BATCH_SIZE = 2
  /\ batches = <<<<"s1", "s2">>, <<"s3">>>>

(* C11 -- Report assembly drops no student: after save_reports_to_file has *)
(* processed the first save_pos students, every one of them is in exactly  *)
(* one category group (the group of its resolved category), none is placed *)
(* twice, and each group lists the full names in processing order; this    *)
(* holds also for students with no coursework item, with no submission, or *)
(* with a stored text that has no category line.                           *)
RECURSIVE NamesOf(_, _)
NamesOf(cat, n) ==
  IF n = 0 THEN <<>>
  ELSE LET rec == student_analysis[n]
       IN NamesOf(cat, n - 1) \o
            (IF ResolveCategory(rec.sid, reports) = cat THEN <<FullName(rec)>> ELSE <<>>)

RECURSIVE SumLens(_, _)
SumLens(groups, cats) ==
  IF cats = {} THEN 0
  ELSE LET c == CHOOSE x \in cats : TRUE
       IN Len(groups[c]) + SumLens(groups, cats \ {c})

C11_NoStudentDropped ==
    /\ \A j \in 1..save_pos :
         ResolveCategory(student_analysis[j].sid, reports) \in DOMAIN category_groups
    /\ \A cat \in DOMAIN category_groups :
         category_groups[cat] = NamesOf(cat, save_pos)
    /\ SumLens(category_groups, DOMAIN category_groups) = save_pos

C11_Witness ==
  /\ save_pos = 3 /\ Len(student_analysis) = 3
  /\ student_analysis[1].coursework = <<>>
  /\ student_analysis[2].coursework # <<>>
  /\ DOMAIN reports = {"s1", "s2"}
  /\ extract_category(reports["s1"]) = None
  /\ extract_category(reports["s2"]) = None
  /\ category_groups[<<"Needs Review">>] = <<<<"s1">>, <<"Ann", "SP", "Lee">>>>
  /\ category_groups[<<"N/A">>] = <<<<"Ann", "SP", "Lee">>>>

(* C12 -- Localized fetch failure: when the list request of a coursework   *)
(* item raises, the remaining items are still fetched and analyse_students *)
(* returns a metrics record for every student; for a failed item no        *)
(* student has a lookup entry (each is analysed as having no submission),  *)
(* and the entries of every other fetched item are what Classroom holds.   *)
Held(sid_, item) ==
  LET idx == {n \in 1..Len(remote[item]) : remote[item][n].userId = Some(sid_)}
  IN IF idx = {} THEN Absent
     ELSE Some(remote[item][CHOOSE n \in idx : \A o \in idx : o <= n])

ExpectedSubs(sid_) ==
  [k \in 1..Len(coursework) |-> IF k \in fetch_failed THEN Absent ELSE Held(sid_, k)]

C12_LocalizedFetchFailure ==
  /\ \A k \in 1..fetch_pos : \A j \in 1..Len(students) :
       LookupGet(submissions_lookup, students[j], k) =
         IF k \in fetch_failed THEN Absent ELSE Held(students[j], k)
  /\ fetch_pc \in {"analyse", "done"} => fetch_pos = Len(coursework)
  /\ \A j \in 1..Len(student_analysis) :
       fetch_pc \in {"analyse", "done"} =>
         /\ student_analysis[j].sid = students[j]
         /\ student_analysis[j].metrics =
              StudentMetrics(coursework, ExpectedSubs(students[j]))
  /\ fetch_pc = "done" => Len(student_analysis) = Len(students)

C12_Witness ==
  /\ fetch_pc = "done"
  /\ Len(coursework) = 2 /\ Len(students) = 2
  /\ fetch_failed = {1}
  /\ Held("s1", 1) # Absent /\ Held("s2", 1) # Absent
  /\ Held("s1", 2) # Absent /\ Held("s2", 2) = Absent
  /\ student_analysis[1].metrics.missing = 1
  /\ student_analysis[1].metrics.graded_count = 1
  /\ student_analysis[2].metrics.missing = 2

(* C13 -- Unbounded retries: with a max retry count <= 0, a student whose  *)
(* fragment failed parse (the batch reply did not have one fragment per    *)
(* student) or validation gets a result only from a valid retry response:  *)
(* the text stored is that response, never a 'Needs Review' fallback, and  *)
(* at least one single-student request was issued for the student.         *)
FragmentFailed ==
  \/ Len(individual_responses) # Len(batch)
  \/ ~ValidCategory(extract_category(individual_responses[i + 1]))

C13_UnboundedRetries ==
  [][\A s \in Sids :
       (INFINITE_RETRIES /\ Stores(s) /\ FragmentFailed)
         => /\ retry_calls > 0
            /\ ValidCategory(extract_category(valid_response))
            /\ results'[s] = remove_markdown_bold(valid_response)]_vars

(* C14 -- average_all reference formula: average_all = 100 * (sum of the   *)
(* strictly positive assigned grades over the items with a positive        *)
(* maximum) / (sum of the maxima of ALL items with a positive maximum, the *)
(* items without submission record included), and 0.0 when no item has a   *)
(* positive maximum.                                                       *)
RECURSIVE SumTo(_, _)
SumTo(f, n) == IF n = 0 THEN 0 ELSE SumTo(f, n - 1) + f[n]

HasGrade(k) ==
  IsPresent(submissions[k]) /\ IsPresent(Val(submissions[k]).assignedGrade)

GradeOf(k) == Val(Val(submissions[k]).assignedGrade)

PositiveGrade(k) == HasGrade(k) /\ GradeOf(k) > 0

C14_AverageAllReference ==
  mpc = "done" =>
    LET n == Len(coursework)
        possible == SumTo([k \in 1..n |->
                      IF UsableMax(coursework[k]) THEN Val(coursework[k]) ELSE 0], n)
        earned == SumTo([k \in 1..n |->
                      IF UsableMax(coursework[k]) /\ PositiveGrade(k)
                      THEN GradeOf(k) ELSE 0], n)
    IN IF possible > 0
       THEN PctEq(metrics.average_all, Pct(earned, possible))
       ELSE metrics.average_all = ZeroPct

(* C15 -- Missing count: missing is the number of coursework items whose   *)
(* submission record is absent or whose assigned grade is absent or zero,  *)
(* each counted once, whether or not the item has a usable maximum; so     *)
(* missing <= total_assignments.                                           *)
MissingItems == {k \in 1..Len(coursework) : ~HasGrade(k) \/ GradeOf(k) = 0}

C15_MissingCount ==
  mpc = "done" =>
    /\ metrics.missing = Cardinality(MissingItems)
    /\ metrics.missing <= metrics.total_assignments
    /\ metrics.total_assignments = Len(coursework)

C15_Witness ==
  /\ mpc = "done" /\ Len(coursework) = 2
  /\ ~UsableMax(coursework[1]) /\ HasGrade(1) /\ GradeOf(1) = 0
  /\ ~IsPresent(submissions[2])
  /\ metrics.missing = 2 /\ metrics.total_assignments = 2

(* C16 -- Submitted average: graded_count is the number of items with a    *)
(* positive maximum and a submission with a strictly positive assigned     *)
(* grade; average_submitted = 100 * (sum of those grades) / (sum of those  *)
(* items' maxima), or 0.0 when there is no such item; every other item     *)
(* contributes to neither sum.                                             *)
GradedItems ==
  {k \in 1..Len(coursework) : UsableMax(coursework[k]) /\ PositiveGrade(k)}

C16_SubmittedAverage ==
  mpc = "done" =>
    LET n == Len(coursework)
        possible == SumTo([k \in 1..n |->
                      IF k \in GradedItems THEN Val(coursework[k]) ELSE 0], n)
        earned == SumTo([k \in 1..n |->
                      IF k \in GradedItems THEN GradeOf(k) ELSE 0], n)
    IN /\ metrics.graded_count = Cardinality(GradedItems)
       /\ IF GradedItems = {}
          THEN metrics.average_submitted = ZeroPct
          ELSE PctEq(metrics.average_submitted, Pct(earned, possible))

C16_Witness ==
  /\ mpc = "done" /\ Len(coursework) = 2
  /\ UsableMax(coursework[1]) /\ PositiveGrade(1) /\ GradeOf(1) = 1
  /\ UsableMax(coursework[2]) /\ HasGrade(2) /\ GradeOf(2) = 0
  /\ metrics.graded_count = 1
  /\ metrics.average_submitted = Pct(1, 2)

(* C17 -- Validation rule.  A fragment is accepted if and only if its      *)
(* first line beginning with 'Category:' (leading blanks aside) has a      *)
(* value, the trimmed text after the colon, that is exactly one of the     *)
(* allowed labels; any other fragment goes to retry.  As claimed: an       *)
(* accepted fragment is stored as-is.                                      *)
CategoryLines(text) ==
  {j \in 1..Len(SplitLines(text)) :
     LET ln == SplitLines(text)[j]
     IN \E k \in 1..Len(ln) : ln[k] = "Category:" /\ \A o \in 1..(k - 1) : IsSpace(ln[o])}

ValueAfterColon(ln) ==
  LET k == CHOOSE o \in 1..Len(ln) : ln[o] = "Category:"
      rest == [o \in 1..(Len(ln) - k) |-> ln[k + o]]
  IN Strip(rest)

PassesRule(text) ==
  /\ CategoryLines(text) # {}
  /\ LET first == CHOOSE j \in CategoryLines(text) : \A k \in CategoryLines(text) : j <= k
     IN \E c \in 1..Len(categories) :
          ValueAfterColon(SplitLines(text)[first]) = <<categories[c]>>

C17_ValidationRule_AsIs ==
  /\ verdict = "accepted" => (PassesRule(fragment) /\ stored = fragment)
  /\ verdict = "retry" => ~PassesRule(fragment)

(* C17 (amended) -- the same rule; an accepted fragment is stored whole,   *)
(* report body included, with only its '**' markers removed (so as-is when *)
(* it holds none).                                                         *)
HasBold(text) == Contains(text, <<"*", "*">>)

C17_ValidationRule ==
  /\ verdict = "accepted" =>
       /\ PassesRule(fragment)
       /\ stored = remove_markdown_bold(fragment)
       /\ ~HasBold(fragment) => stored = fragment
       /\ ~HasBold(stored)
  /\ verdict = "retry" => ~PassesRule(fragment)

C17_Witness ==
  /\ verdict = "accepted"
  /\ HasBold(fragment) /\ stored # fragment
  /\ SplitLines(fragment)[1] = <<"Category:", "At Risk">>

(* C18 -- Per-student retry isolation: in a batch whose reply has one      *)
(* fragment per student, fragment i decides for student i: when it is      *)
(* valid it is stored for that student by a step that makes no external    *)
(* call, whatever the other fragments are; when it is not, the student     *)
(* enters the retry loop, every request of which holds that student's data *)
(* only; and no step changes the result stored for another student.        *)
CountMatches == Len(individual_responses) = Len(batch)

ValidFragmentStored ==
  (pc = "match" /\ i < Len(batch) /\ CountMatches
     /\ ValidCategory(extract_category(individual_responses[i + 1])))
    => /\ results' = Put(results, batch[i + 1],
                         remove_markdown_bold(individual_responses[i + 1]))
       /\ batch_calls' = batch_calls /\ retry_calls' = 0
       /\ last_request' = last_request
       /\ pc' = "match"

FailingFragmentRetried ==
  (pc = "match" /\ i < Len(batch) /\ CountMatches
     /\ ~ValidCategory(extract_category(individual_responses[i + 1])))
    => (pc' = "match_retry" /\ i' = i /\ results' = results)

RetryHoldsOneStudent ==
  (pc = "match_retry")
    => \/ (last_request' = <<batch[i + 1]>> /\ batch_calls' = batch_calls /\ i' = i)
       \/ (~LoopGuard(attempts) /\ last_request' = last_request)

OtherResultsKept ==
  \A s \in DOMAIN results : s \in DOMAIN results' /\ results'[s] = results[s]

C18_RetryIsolation ==
  [][ValidFragmentStored /\ FailingFragmentRetried /\ RetryHoldsOneStudent
       /\ OtherResultsKept]_vars

C18_Witness ==
  /\ pc = "match" /\ i = 2 /\ Len(batch) = 2 /\ CountMatches
  /\ ~ValidCategory(extract_category(individual_responses[1]))
  /\ ValidCategory(extract_category(individual_responses[2]))
  /\ results[batch[2]] = remove_markdown_bold(individual_responses[2])
  /\ last_request = <<batch[1]>>
  /\ retry_calls = 0
  /\ batch_calls = 1

(* C19 -- Retry attempts use the parse+validate rule of a batch of one: a  *)
(* retry attempt succeeds only if its reply splits into exactly one        *)
(* non-empty fragment and that fragment is valid; the loop stops at the    *)
(* first success: the next step stores that fragment for the student and   *)
(* issues no request.                                                      *)
RetrySucceeded == pc = "store" /\ Truthy(valid_response)

C19_RetrySuccessRule ==
  [][RetrySucceeded =>
       /\ accepted_count = 1
       /\ ValidCategory(extract_category(valid_response))
       /\ results' = Put(results, sid, remove_markdown_bold(valid_response))
       /\ retry_calls' = retry_calls /\ batch_calls' = batch_calls]_vars

(* C20 -- Failure during a retry: when the external call raises during a   *)
(* single-student retry attempt nothing leaves generate_reports; the       *)
(* attempt is handled as one that returned an empty reply: it counts as    *)
(* one failed attempt, no candidate is kept, nothing is stored, the        *)
(* backoff sleep follows, and the run is back at the head of the same      *)
(* retry loop.                                                             *)
RetryCallRaises == MatchRetryRaises \/ MismatchRetryRaises

EmptyReplyHandled ==
  /\ pc' = pc
  /\ attempts' = Bump(attempts)
  /\ retry_calls' = Bump(retry_calls)
  /\ sleeps' = Bump(sleeps)
  /\ last_delay' = Min(2 ^ (attempts' - 1), 30)
  /\ valid_response' = valid_response
  /\ results' = results
  /\ i' = i /\ batch' = batch

C20_RetryFailureCaught ==
  [][/\ RetryCallRaises => EmptyReplyHandled
     /\ (pc \in {"match_retry", "mismatch_retry"} /\ LoopGuard(attempts))
          => pc' # "raised"]_vars

C20_Witness ==
  /\ pc = "match_retry" /\ i = 0 /\ batch_calls = 1
  /\ ~all_malformed
  /\ attempts = 1 /\ retry_calls = 1
  /\ sleeps = 1 /\ last_delay = 1
  /\ valid_response = None
  /\ LoopGuard(attempts)

(* C21 -- Backoff values: the delay that follows the k-th failed retry     *)
(* attempt of a student is min(2^(k-1), 30), i.e. 1, 2, 4, 8, 16, 30, 30,  *)
(* ...; it never exceeds 30, never decreases within one student's retries, *)
(* and the first delay of every student is 1.                              *)
DelayTable == <<1, 2, 4, 8, 16, 30, 30, 30, 30, 30>>

DelayFollows == sleeps' = sleeps + 1

C21_BackoffValues ==
  [][DelayFollows =>
       /\ attempts' = attempts + 1
       /\ last_delay' = IF 2 ^ (attempts' - 1) < 30 THEN 2 ^ (attempts' - 1) ELSE 30
       /\ attempts' <= Len(DelayTable) => last_delay' = DelayTable[attempts']
       /\ last_delay' <= 30
       /\ sleeps > 0 => last_delay' >= last_delay
       /\ attempts = 0 => last_delay' = 1]_vars

C21_Witness ==
  /\ Len(batch) > 0 /\ i < Len(batch) /\ sid = "s2"
  /\ "s1" \in DOMAIN results /\ extract_category(results["s1"]) = <<"Needs Review">>
  /\ pc \in {"match_retry", "mismatch_retry"}
  /\ attempts = 7 /\ sleeps = 7 /\ last_delay = 30

(* C22 -- Backoff placement: a delay occurs only between two consecutive   *)
(* retry attempts of one student: none before the student's first attempt, *)
(* none after a successful attempt and none after the last attempt, so a   *)
(* student whose N attempts all fail has slept N-1 times when the fallback *)
(* is about to be stored.                                                  *)
C22_BackoffPlacement ==
  MAX_RETRIES > 0 =>
    /\ (pc \in {"match_retry", "mismatch_retry"} /\ attempts = 0) => sleeps = 0
    /\ RetrySucceeded => sleeps = attempts - 1
    /\ RetriesExhausted => sleeps = MAX_RETRIES - 1

(* C23 -- Append-only results: results only grows.  Every step that        *)
(* changes it adds the entry of one student id that had none and leaves    *)
(* every other entry as it was; the student in hand on any path (valid     *)
(* fragment, count mismatch, retry, fallback) has no entry yet, so each id *)
(* is written at most once.                                                *)
StudentInHand ==
  /\ pc \in {"match", "mismatch", "match_retry", "mismatch_retry", "store"}
  /\ i < Len(batch)

C23_AppendOnly ==
  [][/\ StudentInHand => sid \notin DOMAIN results
     /\ results' # results =>
          /\ StudentInHand
          /\ results' = Put(results, sid, results'[sid])
          /\ DOMAIN results' = DOMAIN results \cup {sid}
          /\ \A s \in DOMAIN results : results'[s] = results[s]]_vars

C23_Witness ==
  /\ pc = "done" /\ Len(student_items) = 3 /\ BATCH_SIZE = 2
  /\ DOMAIN results = {"s1", "s2", "s3"}
  /\ results["s1"] = remove_markdown_bold(FragValid)
  /\ Contains(results["s2"], <<"Invalid">>) \/ extract_category(results["s2"]) = <<"Needs Review">>
  /\ results["s3"] = FragInvalid

(* C24 -- Sequential ordering: a step issues at most one external call     *)
(* (each call returns or raises within the step that issues it); the batch *)
(* request of the next batch is issued only when every student of the      *)
(* batches before has a result; a retry attempt is made for a student only *)
(* when every student before it in the input has a result and it has none; *)
(* results are stored in input order.                                      *)
RECURSIVE CountBefore(_, _)
CountBefore(bs, n) == IF n = 0 THEN 0 ELSE CountBefore(bs, n - 1) + Len(bs[n])

StoredPrefix(n) == DOMAIN results = {student_items[j] : j \in 1..n}

IssuesBatchCall == batch_calls' = batch_calls + 1

IssuesRetryCall == last_request' # last_request /\ ~IssuesBatchCall

C24_SequentialOrdering ==
  [][/\ \E n \in 0..Len(student_items) : StoredPrefix(n)
     /\ ~(IssuesBatchCall /\ retry_calls' # retry_calls)
     /\ batch_calls' \in {batch_calls, batch_calls + 1}
     /\ IssuesBatchCall =>
          /\ StoredPrefix(CountBefore(batches, Len(batches)))
          /\ batches' = Append(batches, batch')
          /\ pc = "loop"
     /\ (pc \in {"match_retry", "mismatch_retry"} /\ LoopGuard(attempts)) =>
          /\ StoredPrefix(CountBefore(batches, Len(batches) - 1) + i)
          /\ sid = student_items[CountBefore(batches, Len(batches) - 1) + i + 1]
          /\ last_request' = <<sid>>
          /\ batch_calls' = batch_calls]_vars

C24_Witness ==
  /\ pc = "match_retry" /\ attempts = 1 /\ retry_calls = 1
  /\ Len(batches) = 2 /\ Len(batches[1]) = 2 /\ Len(batch) = 1 /\ i = 0
  /\ sid = "s3"
  /\ DOMAIN results = {"s1", "s2"}
  /\ last_request = <<"s3">>

(* C25 -- Bold stripping: remove_markdown_bold applied twice gives what it *)
(* gives applied once, its output never holds two adjacent asterisks, and  *)
(* no text stored in results holds '**'.                                   *)
C25_BoldStripping ==
  /\ verdict = "stripped" => ~HasBold(stored)
  /\ verdict = "stripped twice" =>
       (stored = remove_markdown_bold(fragment) /\ ~HasBold(stored))
  /\ \A s \in DOMAIN results : ~HasBold(results[s])

C25_Witness ==
  /\ verdict = "stripped twice"
  /\ fragment = <<"*", "*", "*", "x", "*">>
  /\ stored = <<"*", "x", "*">>

(* the status the rule gives to one coursework item *)
RuleStatus(sub) ==
  IF \/ ~IsPresent(sub)
     \/ Val(sub).state \in {"NEW", "CREATED"}
     \/ ~IsPresent(Val(sub).assignedGrade)
     \/ Val(Val(sub).assignedGrade) = 0
  THEN "Missing"
  ELSE IF Val(sub).late THEN "Late" ELSE "Submitted"

RowsFollowRule(rows) ==
  /\ Len(rows) = Len(coursework)
  /\ \A k \in 1..Len(rows) :
       rows[k].item = k /\ rows[k].status = RuleStatus(submissions[k])

(* C26: in the prompt and in the file there is one row per coursework item, *)
(* in coursework order, and its status is Missing exactly when the record  *)
(* is absent, its state is NEW or CREATED, or its grade is absent or zero; *)
(* otherwise Late when the late flag is set and Submitted when it is not   *)
C26_DetailRowStatus ==
  /\ dpc \in {"file", "done"} => RowsFollowRule(detailed_submissions)
  /\ dpc = "done" => RowsFollowRule(file_rows)

(* the category save_reports_to_file reads from the text stored for s1 *)
SavedCategory == ResolveCategory("s1", [x \in {"s1"} |-> stored])

(* C27: the category read back from the stored, bold-stripped text of an   *)
(* accepted fragment is the category the fragment was validated with       *)
C27_StrippingKeepsCategory ==
  verdict = "accepted" => SavedCategory = extract_category(fragment)

CeilDiv(n, b) == (n + b - 1) \div b

BatchRequestsExact ==
  Finished' => batch_calls' = CeilDiv(Len(student_items), BATCH_SIZE)

RetriesWithinMax == retry_calls' <= MAX_RETRIES

(* a batch whose reply has one valid fragment per student costs no single- *)
(* student request and no delay                                            *)
WellFormedBatchCostsNothing ==
  (pc = "match" /\ WellFormed(individual_responses, Len(batch)))
    => (retry_calls' <= retry_calls /\ sleeps' <= sleeps)

(* C28: with batch size B >= 1 and max_retries N > 0 a run issues exactly  *)
(* ceil(n/B) batch requests and at most N single-student requests for each *)
(* student (so at most ceil(n/B) + n*N calls), and a batch whose reply is  *)
(* well formed adds no further call and no delay                           *)
C28_BoundedCalls ==
  [][(BATCH_SIZE >= 1 /\ MAX_RETRIES > 0)
       => (BatchRequestsExact /\ RetriesWithinMax /\ WellFormedBatchCostsNothing)]_vars

PctLeq(a, b) == a.num * b.den <= b.num * a.den

(* C29: with grades absent or non-negative the average over all items is  *)
(* never above the average over the graded items, and average_score is     *)
(* average_all                                                             *)
C29_AverageOrder ==
  mpc = "done" =>
    /\ PctLeq(metrics.average_all, metrics.average_submitted)
    /\ metrics.average_score = metrics.average_all

(* a graded item and an item with grade 0: the averages differ *)
C29_Witness ==
  /\ mpc = "done"
  /\ \A k \in 1..Len(submissions) :
       IsPresent(submissions[k]) =>
         (~IsPresent(Val(submissions[k]).assignedGrade) \/ Val(Val(submissions[k]).assignedGrade) >= 0)
  /\ metrics.graded_count > 0
  /\ ~PctLeq(metrics.average_submitted, metrics.average_all)
  /\ metrics.average_score = metrics.average_all

RunInProgress(t) == threads[t].pc \in {"running", "analysing"}

RunsInProgress == {t \in 1..Len(threads) : RunInProgress(t)}

(* C30: at most one run started from the GUI is in progress, the button is *)
(* disabled while a run is in progress and enabled again once the runs     *)
(* have ended                                                              *)
C30_GuiSingleRun ==
  /\ Cardinality(RunsInProgress) <= 1
  /\ RunsInProgress # {} => run_btn = "disabled"
  /\ (threads # <<>> /\ \A t \in 1..Len(threads) : threads[t].pc = "ended")
       => run_btn = "normal"

====
